---- MODULE Spec2Model ----
(***************************************************************************)
(* Storage layer of the stock analysis system: the StockDaily record, the  *)
(* SQLite backend (storage/stock.py), the S3-synchronised backend          *)
(* (storage/remote.py) and the StockStorageManager (storage/manager.py).   *)
(*                                                                         *)
(* Text values (codes, prices, source labels) are opaque strings; the      *)
(* string "None" stands for Python None / SQL NULL.  Date strings are      *)
(* sequences of character codes so that SQL's text comparison, the [:10]   *)
(* truncation and strftime are computed, not assumed.                      *)
(***************************************************************************)
EXTENDS Integers, Sequences, FiniteSets, TLC

VARIABLES
    backend,      \* kind of the live backend object: "none", "sqlite", "remote_s3"
    conn,         \* backend._connection: the connection's view of the database
    dbFile,       \* the local backend's database file (committed content)
    tmpFile,      \* <temp_dir>/stock.db, the remote backend's working-copy file
    remoteObj,    \* the object stored under remote_db_key in the bucket
    dirty,        \* RemoteStockStorage._db_modified
    pathSet,      \* RemoteStockStorage._local_db_path is not None
    clock,        \* CURRENT_TIMESTAMP, in seconds
    ret,          \* outcome of the last call made by the caller
    gAttach,      \* history: a write succeeded on the working copy since it was attached
    gSync,        \* history: ... and since the last successful upload
    gBuilt,       \* history: backends the Manager has constructed (0, 1, 2 for more)
    mgr,          \* the StockStorageManager's fields and the process environment
    peer,         \* the other backend objects alive in the system
    singleton     \* manager._storage_manager is not None

vars == <<backend, conn, dbFile, tmpFile, remoteObj, dirty, pathSet, clock, ret,
          gAttach, gSync, gBuilt, mgr, peer, singleton>>

\* ---------------------------------------------------------------- bounds
MaxSeq == 2        \* largest AUTOINCREMENT value a database may reach
MaxClock == 1      \* largest value of the clock
MaxBatch == 2      \* longest batch / dataframe handed to a save

\* ---------------------------------------------------------------- values
None == "None"

Codes == {"A", "B"}

\* "2024-01-09", "2024-01-10" and the empty string
D1 == <<50, 48, 50, 52, 45, 48, 49, 45, 48, 57>>
D2 == <<50, 48, 50, 52, 45, 48, 49, 45, 49, 48>>
DEmpty == <<>>
\* " 00:00:00", what str() of a pandas Timestamp appends to the date
Midnight == <<32, 48, 48, 58, 48, 48, 58, 48, 48>>

DateStrs == {DEmpty, D1, D2}

\* datetime.date objects; NoDate stands for None where a date object is expected
NoDate == [y |-> 0, m |-> 0, d |-> 0]
DateObjs == {[y |-> 2024, m |-> 1, d |-> 9], [y |-> 2024, m |-> 1, d |-> 10]}

MutableCols == {"open", "high", "low", "close", "volume", "amount", "pct_chg",
                "ma5", "ma10", "ma20", "volume_ratio", "data_source"}
KeyCols == {"code", "date"}
GeneratedCols == {"id", "created_at", "updated_at"}
DataCols == KeyCols \cup MutableCols
AllCols == DataCols \cup GeneratedCols

\* two value profiles for the twelve mutable columns
V1 == [open |-> "10.0", high |-> "11.0", low |-> "9.0", close |-> "10.5",
       volume |-> "1000.0", amount |-> "10500.0", pct_chg |-> "1.2",
       ma5 |-> "10.1", ma10 |-> "10.2", ma20 |-> "10.3",
       volume_ratio |-> "0.9", data_source |-> "akshare"]
V2 == [open |-> "20.0", high |-> "21.0", low |-> "19.0", close |-> "20.5",
       volume |-> "2000.0", amount |-> "41000.0", pct_chg |-> "-0.5",
       ma5 |-> None, ma10 |-> None, ma20 |-> None,
       volume_ratio |-> None, data_source |-> "tushare"]
Profiles == {V1, V2}

\* ------------------------------------------------------- storage/base.py
\* the StockDaily dataclass: generated fields default to None (-1 for the integers)
NoneInt == -1

StockDaily(c, d, v) ==
    [k \in AllCols |->
        IF k = "code" THEN c
        ELSE IF k = "date" THEN d
        ELSE IF k \in GeneratedCols THEN NoneInt
        ELSE v[k]]

\* StockDaily.to_dict: every field but the generated ones
ToDict(o) == [k \in (DOMAIN o) \ GeneratedCols |-> o[k]]

\* str(x)[:10]
DateLen == 10

Truncate(s) == SubSeq(s, 1, IF Len(s) < DateLen THEN Len(s) ELSE DateLen)

\* date.strftime("%Y-%m-%d")
Digit(n) == 48 + n

Strftime(dt) ==
    << Digit(dt.y \div 1000), Digit((dt.y \div 100) % 10), Digit((dt.y \div 10) % 10),
       Digit(dt.y % 10), 45,
       Digit(dt.m \div 10), Digit(dt.m % 10), 45,
       Digit(dt.d \div 10), Digit(dt.d % 10) >>

\* sqlite3's default converter for a column declared DATE: None for an empty
\* value, else date(*map(int, val.split(b"-")))
ConvertDate(s) ==
    IF s = DEmpty THEN NoDate
    ELSE [y |-> (s[1] - 48) * 1000 + (s[2] - 48) * 100 + (s[3] - 48) * 10 + (s[4] - 48),
          m |-> (s[6] - 48) * 10 + (s[7] - 48),
          d |-> (s[9] - 48) * 10 + (s[10] - 48)]

\* ------------------------------------------------------------ the engine
\* a database: whether it exists (a file, an object) or is open (a connection),
\* the rows of stock_daily and the sqlite_sequence counter of the table
NoDb == [exists |-> FALSE, rows |-> {}, seq |-> 0]
EmptyDb == [exists |-> TRUE, rows |-> {}, seq |-> 0]

\* text comparison of SQLite's BINARY collation
RECURSIVE StrLess(_, _)
StrLess(a, b) ==
    IF b = <<>> THEN FALSE
    ELSE IF a = <<>> THEN TRUE
    ELSE IF a[1] # b[1] THEN a[1] < b[1]
    ELSE StrLess(Tail(a), Tail(b))

StrLeq(a, b) == a = b \/ StrLess(a, b)

\* NOT NULL constraints of the table
ViolatesNotNull(p) == p.code = None

\* the rows an INSERT of p conflicts with under UNIQUE(code, date)
Conflicts(rows, p) == {r \in rows : r.code = p.code /\ r.date = p.date}

\* Upsert as a plain INSERT on a table without UNIQUE(code, date)
UpsertNoConflictCheck(db, p, now) ==
    [db EXCEPT
        !.rows = db.rows \cup {[k \in AllCols |->
                    IF k = "id" THEN db.seq + 1
                    ELSE IF k \in {"created_at", "updated_at"} THEN now
                    ELSE p[k]]},
        !.seq = db.seq + 1]

\* Upsert as INSERT OR REPLACE: the old row is deleted, a new one inserted
UpsertReplacingRow(db, p, now) ==
    [db EXCEPT
        !.rows = (db.rows \ Conflicts(db.rows, p)) \cup {[k \in AllCols |->
                    IF k = "id" THEN db.seq + 1
                    ELSE IF k \in {"created_at", "updated_at"} THEN now
                    ELSE p[k]]},
        !.seq = db.seq + 1]

\* INSERT ... ON CONFLICT(code, date) DO UPDATE SET <mutable columns>,
\* updated_at = CURRENT_TIMESTAMP.  AUTOINCREMENT draws a rowid for the
\* statement whether it ends as an insert or as an update.
Upsert(db, p, now) ==
    LET old == Conflicts(db.rows, p)
        updated == {[k \in AllCols |->
                        IF k \in MutableCols THEN p[k]
                        ELSE IF k = "updated_at" THEN now
                        ELSE r[k]] : r \in old}
        inserted == {[k \in AllCols |->
                        IF k = "id" THEN db.seq + 1
                        ELSE IF k \in {"created_at", "updated_at"} THEN now
                        ELSE p[k]]}
    IN [db EXCEPT
            !.rows = IF old # {} THEN (db.rows \ old) \cup updated
                     ELSE db.rows \cup inserted,
            !.seq = db.seq + 1]

\* executemany of INSERT OR IGNORE: a statement that meets its pair keeps the
\* stored row
RECURSIVE ExecuteManyKeepFirst(_, _, _, _, _)
ExecuteManyKeepFirst(db, ps, now, fault, i) ==
    IF i > Len(ps) THEN [db |-> db, ok |-> TRUE]
    ELSE IF fault = i \/ ViolatesNotNull(ps[i]) THEN [db |-> db, ok |-> FALSE]
    ELSE IF Conflicts(db.rows, ps[i]) # {}
        THEN ExecuteManyKeepFirst([db EXCEPT !.seq = db.seq + 1], ps, now, fault, i + 1)
    ELSE ExecuteManyKeepFirst(Upsert(db, ps[i], now), ps, now, fault, i + 1)

\* cursor.executemany(sql, ps) with an engine fault at statement `fault`
\* (0: none): the statements before the first failing one stay applied
RECURSIVE ExecuteMany(_, _, _, _, _)
ExecuteMany(db, ps, now, fault, i) ==
    IF i > Len(ps) THEN [db |-> db, ok |-> TRUE]
    ELSE IF fault = i \/ ViolatesNotNull(ps[i]) THEN [db |-> db, ok |-> FALSE]
    ELSE ExecuteMany(Upsert(db, ps[i], now), ps, now, fault, i + 1)

\* SELECT MAX(date) FROM stock_daily WHERE code = ?  (rows non-empty)
MaxDateOf(rows, c) ==
    LET ds == {r.date : r \in {x \in rows : x.code = c}}
    IN CHOOSE d \in ds : \A e \in ds : StrLeq(e, d)

\* ORDER BY date ASC
RECURSIVE OrderByDate(_)
OrderByDate(rows) ==
    IF rows = {} THEN <<>>
    ELSE LET first == CHOOSE r \in rows : \A x \in rows : StrLeq(r.date, x.date)
         IN <<first>> \o OrderByDate(rows \ {first})


\* ------------------------------------------------------------- the world
\* The operations below are functions from the state before a call (a record
\* with one field per variable) to the state after it and the call's outcome.
World ==
    [backend |-> backend, conn |-> conn, dbFile |-> dbFile, tmpFile |-> tmpFile,
     remoteObj |-> remoteObj, dirty |-> dirty, pathSet |-> pathSet, clock |-> clock,
     gAttach |-> gAttach, gSync |-> gSync, gBuilt |-> gBuilt, mgr |-> mgr]

\* what a call hands back: the value returned or the exception raised, and
\* the constructor / object-store calls made on the way
Res(w, op, val, exc, log) ==
    [w |-> w, ret |-> [op |-> op, val |-> val, exc |-> exc, log |-> log]]

WithLog(res, log) == [res EXCEPT !.ret.log = log \o res.ret.log]
Renamed(res, op) == [res EXCEPT !.ret.op = op]

\* Optional[str] results whose value is a date string
NoneStr == [some |-> FALSE, v |-> <<>>]
Some(s) == [some |-> TRUE, v |-> s]

IsRemote(w) == w.backend = "remote_s3"

\* bool(code): None and "" are falsy
Truthy(c) == c # None /\ c # ""

\* ------------------------------------------------- storage/remote.py: S3
\* _check_object_exists: "true", "false" (404) or "raise" (any other ClientError)
check_object_exists(w, headErr) ==
    IF headErr THEN "raise"
    ELSE IF w.remoteObj.exists THEN "true" ELSE "false"

\* _download_database
download_database(w, headErr, dlErr) ==
    LET e == check_object_exists(w, headErr) IN
    IF e = "raise" THEN [w |-> w, result |-> "raise", log |-> <<"head:err">>]
    ELSE IF e = "false" THEN [w |-> w, result |-> "false", log |-> <<"head:404">>]
    ELSE IF dlErr
        THEN [w |-> w, result |-> "false", log |-> <<"head:ok", "download:err">>]
    ELSE [w |-> [w EXCEPT !.tmpFile = w.remoteObj], result |-> "true",
          log |-> <<"head:ok", "download:ok">>]

\* an upload that merges the working copy into the stored object
upload_database_merge(w, upErr) ==
    IF ~w.tmpFile.exists THEN [w |-> w, result |-> FALSE, log |-> <<>>]
    ELSE IF upErr THEN [w |-> w, result |-> FALSE, log |-> <<"upload:err">>]
    ELSE [w |-> [w EXCEPT !.remoteObj =
                    [w.tmpFile EXCEPT !.rows = w.tmpFile.rows \cup w.remoteObj.rows]],
          result |-> TRUE, log |-> <<"upload:ok">>]

\* _upload_database
upload_database(w, upErr) ==
    IF ~w.tmpFile.exists THEN [w |-> w, result |-> FALSE, log |-> <<>>]
    ELSE IF upErr THEN [w |-> w, result |-> FALSE, log |-> <<"upload:err">>]
    ELSE [w |-> [w EXCEPT !.remoteObj = w.tmpFile], result |-> TRUE,
          log |-> <<"upload:ok">>]

\* conn.commit(): the connection's view becomes the content of the file
commit(w) ==
    IF IsRemote(w) THEN [w EXCEPT !.tmpFile = w.conn]
    ELSE [w EXCEPT !.dbFile = w.conn]

\* self._db_modified = True (remote backend only)
mark_modified(w) ==
    IF IsRemote(w) THEN [w EXCEPT !.dirty = TRUE, !.gAttach = TRUE, !.gSync = TRUE]
    ELSE w

\* a _get_connection that opens a new, empty working copy on every call
remote_get_connection_fresh(w, headErr, dlErr) ==
    [w |-> [w EXCEPT !.pathSet = TRUE, !.conn = EmptyDb, !.tmpFile = EmptyDb,
                     !.gAttach = FALSE, !.gSync = FALSE],
     status |-> "ok", log |-> <<>>]

\* a _get_connection that checks the remote object on every call
remote_get_connection_recheck(w, headErr, dlErr) ==
    LET dl == download_database(w, headErr, dlErr)
        f == IF dl.w.tmpFile.exists THEN dl.w.tmpFile ELSE EmptyDb
    IN IF w.conn.exists THEN [w |-> w, status |-> "ok", log |-> <<"head:ok">>]
       ELSE IF dl.result = "raise" THEN [w |-> dl.w, status |-> "raise", log |-> dl.log]
       ELSE [w |-> [dl.w EXCEPT !.pathSet = TRUE, !.conn = f, !.tmpFile = f,
                                !.gAttach = FALSE, !.gSync = FALSE],
             status |-> "ok", log |-> dl.log]

\* RemoteStockStorage._get_connection
remote_get_connection(w, headErr, dlErr) ==
    IF w.conn.exists THEN [w |-> w, status |-> "ok", log |-> <<>>]
    ELSE
        LET dl == download_database(w, headErr, dlErr)
            \* sqlite3.connect opens the file at the path, or creates it;
            \* CREATE TABLE IF NOT EXISTS; commit
            f == IF dl.w.tmpFile.exists THEN dl.w.tmpFile ELSE EmptyDb
        IN IF dl.result = "raise" THEN [w |-> dl.w, status |-> "raise", log |-> dl.log]
           ELSE [w |-> [dl.w EXCEPT !.pathSet = TRUE, !.conn = f, !.tmpFile = f,
                                    !.gAttach = FALSE, !.gSync = FALSE],
                 status |-> "ok", log |-> dl.log]

\* StockStorage._get_connection
local_get_connection(w) ==
    IF w.conn.exists THEN [w |-> w, status |-> "ok", log |-> <<>>]
    ELSE LET f == IF w.dbFile.exists THEN w.dbFile ELSE EmptyDb
         IN [w |-> [w EXCEPT !.conn = f, !.dbFile = f], status |-> "ok", log |-> <<>>]

get_connection(w, headErr, dlErr) ==
    IF IsRemote(w) THEN remote_get_connection(w, headErr, dlErr)
    ELSE local_get_connection(w)

\* a _sync_to_remote that clears _db_modified whatever the upload returned
sync_to_remote_clearing(w, upErr) ==
    IF w.dirty /\ w.conn.exists
    THEN LET c == commit(w)
             up == upload_database(c, upErr)
         IN [w |-> [up.w EXCEPT !.dirty = FALSE, !.gSync = FALSE],
             result |-> up.result, log |-> up.log]
    ELSE [w |-> w, result |-> TRUE, log |-> <<>>]

\* _sync_to_remote
sync_to_remote(w, upErr) ==
    IF w.dirty /\ w.conn.exists
    THEN LET c == commit(w)
             up == upload_database(c, upErr)
         IN IF up.result
            THEN [w |-> [up.w EXCEPT !.dirty = FALSE, !.gSync = FALSE],
                  result |-> TRUE, log |-> up.log]
            ELSE [w |-> up.w, result |-> FALSE, log |-> up.log]
    ELSE [w |-> w, result |-> TRUE, log |-> <<>>]

\* ------------------------------------------------------ data operations
\* (StockStorage and RemoteStockStorage share these bodies; the remote one
\* also sets _db_modified after a commit)

save_daily(w, data, headErr, dlErr, sqlErr) ==
    LET g == get_connection(w, headErr, dlErr) IN
    IF g.status = "raise" THEN Res(g.w, "save_daily", None, "ClientError", g.log)
    ELSE IF sqlErr \/ ViolatesNotNull(ToDict(data))
        THEN Res(g.w, "save_daily", FALSE, None, g.log)
    ELSE LET db == Upsert(g.w.conn, ToDict(data), g.w.clock)
         IN Res(mark_modified(commit([g.w EXCEPT !.conn = db])),
                "save_daily", TRUE, None, g.log)

\* the except branch of save_daily_batch: no rollback, the statements that
\* ran before the failing one stay in the connection's open transaction
batch_failed(w, e) == [w EXCEPT !.conn = e.db]

save_daily_batch(w, data_list, headErr, dlErr, sqlFault) ==
    IF data_list = <<>> THEN Res(w, "save_daily_batch", 0, None, <<>>)
    ELSE
        LET g == get_connection(w, headErr, dlErr)
            ps == [i \in 1..Len(data_list) |-> ToDict(data_list[i])]
            e == ExecuteMany(g.w.conn, ps, g.w.clock, sqlFault, 1)
        IN IF g.status = "raise"
           THEN Res(g.w, "save_daily_batch", None, "ClientError", g.log)
           ELSE IF ~e.ok THEN Res(batch_failed(g.w, e), "save_daily_batch", 0, None, g.log)
           ELSE Res(mark_modified(commit([g.w EXCEPT !.conn = e.db])),
                    "save_daily_batch", Len(data_list), None, g.log)

\* the StockDaily built from one dataframe row (StockDaily.from_dataframe_row
\* and the loop of save_from_dataframe)
from_dataframe_row(df, row, code, source) ==
    StockDaily(code, Truncate(IF df.hasDate THEN row.date ELSE row.name),
               [row.v EXCEPT !.data_source = source])

save_from_dataframe(w, df, code, source, headErr, dlErr, sqlFault) ==
    IF df.rows = <<>> THEN Res(w, "save_from_dataframe", 0, None, <<>>)
    ELSE Renamed(
            save_daily_batch(w,
                [i \in 1..Len(df.rows) |-> from_dataframe_row(df, df.rows[i], code, source)],
                headErr, dlErr, sqlFault),
            "save_from_dataframe")

\* StockDaily.from_dict(dict(row)) of a fetched row: the DATE column has
\* gone through sqlite3's converter
from_dict(r) == [r EXCEPT !.date = ConvertDate(r.date)]

\* d BETWEEN lo AND hi with a bound left out
BetweenExclusive(d, lo, hi) == StrLeq(lo, d) /\ StrLess(d, hi)

\* d BETWEEN lo AND hi
Between(d, lo, hi) == StrLeq(lo, d) /\ StrLeq(d, hi)

get_daily(w, code, start, end, headErr, dlErr, sqlErr) ==
    LET g == get_connection(w, headErr, dlErr)
        hit == {r \in g.w.conn.rows : r.code = code /\ Between(r.date, start, end)}
        rows == OrderByDate(hit)
    IN IF g.status = "raise" THEN Res(g.w, "get_daily", None, "ClientError", g.log)
       ELSE IF sqlErr THEN Res(g.w, "get_daily", <<>>, None, g.log)
       ELSE Res(g.w, "get_daily", [i \in 1..Len(rows) |-> from_dict(rows[i])], None, g.log)

\* row["latest_date"] if row and row["latest_date"] else None
latest_date_value(rows, code) ==
    IF {r \in rows : r.code = code} = {} THEN NoneStr
    ELSE IF MaxDateOf(rows, code) = DEmpty THEN NoneStr
    ELSE Some(MaxDateOf(rows, code))

get_latest_date(w, code, headErr, dlErr, sqlErr) ==
    LET g == get_connection(w, headErr, dlErr) IN
    IF g.status = "raise" THEN Res(g.w, "get_latest_date", None, "ClientError", g.log)
    ELSE IF sqlErr THEN Res(g.w, "get_latest_date", NoneStr, None, g.log)
    ELSE Res(g.w, "get_latest_date", latest_date_value(g.w.conn.rows, code), None, g.log)

\* the codes in the order of ORDER BY code
CodeOrder == <<"A", "B">>
IsPresent(rows, c) == \E r \in rows : r.code = c

get_stock_codes(w, headErr, dlErr, sqlErr) ==
    LET g == get_connection(w, headErr, dlErr)
        present(c) == IsPresent(g.w.conn.rows, c)
    IN IF g.status = "raise" THEN Res(g.w, "get_stock_codes", None, "ClientError", g.log)
       ELSE IF sqlErr THEN Res(g.w, "get_stock_codes", <<>>, None, g.log)
       ELSE Res(g.w, "get_stock_codes", SelectSeq(CodeOrder, present), None, g.log)

get_record_count(w, code, headErr, dlErr, sqlErr) ==
    LET g == get_connection(w, headErr, dlErr)
        counted == IF Truthy(code) THEN {r \in g.w.conn.rows : r.code = code}
                   ELSE g.w.conn.rows
    IN IF g.status = "raise" THEN Res(g.w, "get_record_count", None, "ClientError", g.log)
       ELSE IF sqlErr THEN Res(g.w, "get_record_count", 0, None, g.log)
       ELSE Res(g.w, "get_record_count", Cardinality(counted), None, g.log)

\* the DELETE with `date <= ?` in place of `date < ?`
delete_through(w, op, column, bound, headErr, dlErr, sqlErr) ==
    LET g == get_connection(w, headErr, dlErr)
        del == {r \in g.w.conn.rows :
                    IF column = "code" THEN r.code = bound ELSE StrLeq(r.date, bound)}
    IN IF g.status = "raise" THEN Res(g.w, op, None, "ClientError", g.log)
       ELSE IF sqlErr THEN Res(g.w, op, 0, None, g.log)
       ELSE Res(mark_modified(commit([g.w EXCEPT !.conn.rows = g.w.conn.rows \ del])),
                op, Cardinality(del), None, g.log)

\* DELETE FROM stock_daily WHERE <gone>; commit; rowcount
delete_where(w, op, column, bound, headErr, dlErr, sqlErr) ==
    LET g == get_connection(w, headErr, dlErr)
        del == {r \in g.w.conn.rows :
                    IF column = "code" THEN r.code = bound ELSE StrLess(r.date, bound)}
    IN IF g.status = "raise" THEN Res(g.w, op, None, "ClientError", g.log)
       ELSE IF sqlErr THEN Res(g.w, op, 0, None, g.log)
       ELSE Res(mark_modified(commit([g.w EXCEPT !.conn.rows = g.w.conn.rows \ del])),
                op, Cardinality(del), None, g.log)

\* DELETE FROM stock_daily WHERE code = ?
delete_by_code(w, code, headErr, dlErr, sqlErr) ==
    delete_where(w, "delete_by_code", "code", code, headErr, dlErr, sqlErr)

\* DELETE FROM stock_daily WHERE date < ?
delete_before_date(w, date_str, headErr, dlErr, sqlErr) ==
    delete_where(w, "delete_before_date", "date", date_str, headErr, dlErr, sqlErr)

\* ------------------------------------------------------------ lifecycle
\* connection.close(): what was not committed is rolled back
release(w) == [w EXCEPT !.conn = NoDb, !.gAttach = FALSE, !.gSync = FALSE]

\* a close that releases the connection and deletes the working copy before
\* it synchronises
backend_close_sync_last(w, upErr, unlinkErr) ==
    IF ~w.conn.exists THEN Res(w, "close", None, None, <<>>)
    ELSE IF ~IsRemote(w) THEN Res(release(w), "close", None, None, <<>>)
    ELSE LET c == release(w)
             u == IF c.pathSet /\ c.tmpFile.exists /\ ~unlinkErr
                  THEN [c EXCEPT !.tmpFile = NoDb] ELSE c
             s == sync_to_remote(u, upErr)
         IN Res(s.w, "close", None, None, s.log)

\* RemoteStockStorage.close / StockStorage.close
backend_close(w, upErr, unlinkErr) ==
    IF ~w.conn.exists THEN Res(w, "close", None, None, <<>>)
    ELSE IF ~IsRemote(w) THEN Res(release(w), "close", None, None, <<>>)
    ELSE LET s == sync_to_remote(w, upErr)
             c == release(s.w)
             \* self._local_db_path.unlink(), an OSError is swallowed
             u == IF c.pathSet /\ c.tmpFile.exists /\ ~unlinkErr
                  THEN [c EXCEPT !.tmpFile = NoDb] ELSE c
         IN Res(u, "close", None, None, s.log)

\* RemoteStockStorage.sync
backend_sync(w, upErr) ==
    LET s == sync_to_remote(w, upErr) IN Res(s.w, "sync", s.result, None, s.log)

\* RemoteStockStorage.pull
pull(w, headErr, dlErr) ==
    LET c == IF w.conn.exists THEN release(w) ELSE w
        dl == download_database(c, headErr, dlErr)
    IN IF dl.result = "raise" THEN Res(dl.w, "pull", None, "ClientError", dl.log)
       ELSE Res(dl.w, "pull", dl.result = "true", None, dl.log)

\* ---------------------------------------------------- storage/manager.py
Params == {"bucket_name", "access_key_id", "secret_access_key", "endpoint_url"}

\* _has_remote_config: each parameter from remote_config or from the environment
has_remote_config(m) == \A k \in Params : k \in m.cfg \/ k \in m.env

\* _resolve_backend_type with the CI test left out of the auto branch
resolve_ignoring_ci(m) ==
    IF m.backend_type = "auto"
    THEN IF has_remote_config(m) THEN "remote" ELSE "local"
    ELSE m.backend_type

\* _resolve_backend_type
resolve_backend_type(m) ==
    IF m.backend_type = "auto"
    THEN IF m.ci /\ has_remote_config(m) THEN "remote" ELSE "local"
    ELSE m.backend_type

\* _create_remote_backend without its `except Exception` clause
create_remote_uncaught(m, ctorErr) ==
    IF ~m.boto3 THEN [made |-> FALSE, exc |-> None, log |-> <<"ctor:ImportError">>]
    ELSE IF ctorErr THEN [made |-> FALSE, exc |-> "Exception", log |-> <<"ctor:Exception">>]
    ELSE [made |-> TRUE, exc |-> None, log |-> <<"ctor:ok">>]

\* _create_remote_backend: RemoteStockStorage(...) raises ImportError without
\* boto3 and may raise from mkdir / boto3.client; both are caught
create_remote_backend(m, ctorErr) ==
    IF ~m.boto3 THEN [made |-> FALSE, exc |-> None, log |-> <<"ctor:ImportError">>]
    ELSE IF ctorErr THEN [made |-> FALSE, exc |-> None, log |-> <<"ctor:Exception">>]
    ELSE [made |-> TRUE, exc |-> None, log |-> <<"ctor:ok">>]

\* StockStorage.__init__: connect, CREATE TABLE IF NOT EXISTS, commit
new_local(w) ==
    LET f == IF w.dbFile.exists THEN w.dbFile ELSE EmptyDb
    IN [w EXCEPT !.backend = "sqlite", !.conn = f, !.dbFile = f,
                 !.dirty = FALSE, !.pathSet = FALSE, !.gAttach = FALSE, !.gSync = FALSE,
                 !.gBuilt = IF w.gBuilt = 0 THEN 1 ELSE 2]

\* RemoteStockStorage.__init__: no connection, no path, not modified
new_remote(w) ==
    [w EXCEPT !.backend = "remote_s3", !.conn = NoDb,
              !.dirty = FALSE, !.pathSet = FALSE, !.gAttach = FALSE, !.gSync = FALSE,
              !.gBuilt = IF w.gBuilt = 0 THEN 1 ELSE 2]

\* get_backend; `exc` is what it raises
get_backend(w, ctorErr) ==
    IF w.backend # "none" THEN [w |-> w, exc |-> None, log |-> <<>>]
    ELSE IF resolve_backend_type(w.mgr) = "remote"
    THEN LET c == create_remote_backend(w.mgr, ctorErr)
         IN IF c.exc # None THEN [w |-> w, exc |-> c.exc, log |-> c.log]
            ELSE IF c.made THEN [w |-> new_remote(w), exc |-> None, log |-> c.log]
            ELSE [w |-> new_local(w), exc |-> None, log |-> c.log \o <<"ctor:local">>]
    ELSE [w |-> new_local(w), exc |-> None, log |-> <<"ctor:local">>]

\* a Manager method that delegates, self.get_backend().<op>(...): g is the
\* outcome of get_backend, res the outcome of the backend's method on g.w
via_manager(g, op, res) ==
    IF g.exc # None THEN Res(g.w, op, None, g.exc, g.log)
    ELSE WithLog(res, g.log)

\* the target date when check_date is ignored
target_always_today(check_date, today) == today

\* check_date or date_type.today()
target_date(check_date, today) == IF check_date # NoDate THEN check_date ELSE today

\* has_today_data
has_today_data(w, code, check_date, today, ctorErr, headErr, dlErr, sqlErr) ==
    LET g == get_backend(w, ctorErr)
        l == via_manager(g, "get_latest_date",
                         get_latest_date(g.w, code, headErr, dlErr, sqlErr))
        latest == l.ret.val
    IN IF l.ret.exc # None THEN Renamed(l, "has_today_data")
       ELSE IF ~latest.some THEN Renamed([l EXCEPT !.ret.val = FALSE], "has_today_data")
       ELSE Renamed([l EXCEPT !.ret.val = (latest.v = Strftime(target_date(check_date, today)))],
                    "has_today_data")

\* Manager.sync: hasattr(backend, 'sync')
manager_sync(w, ctorErr, upErr) ==
    LET g == get_backend(w, ctorErr)
    IN via_manager(g, "sync",
                   IF IsRemote(g.w) THEN backend_sync(g.w, upErr)
                   ELSE Res(g.w, "sync", TRUE, None, <<>>))

\* Manager.close
manager_close(w, upErr, unlinkErr) ==
    IF w.backend = "none" THEN Res(w, "close", None, None, <<>>)
    ELSE LET c == backend_close(w, upErr, unlinkErr)
         IN [c EXCEPT !.w.backend = "none"]

\* the backend_name property
backend_name(w, ctorErr) ==
    LET g == get_backend(w, ctorErr)
    IN via_manager(g, "backend_name", Res(g.w, "backend_name", g.w.backend, None, <<>>))


\* ---------------------------------------------------------------- inputs
BadRecord == StockDaily(None, D1, V1)

SeqsUpTo(S, n) == UNION {[1..k -> S] : k \in 0..n}

\* The local backend is driven with more records than the remote one, whose
\* state also holds the working-copy file and the remote object.
\* Records handed to save_daily: one key under both value profiles, a later
\* and an empty date for the same code, a second code, and a record the
\* table rejects (code None).
LocalObjs == {StockDaily("A", D1, V1), StockDaily("A", D1, V2), StockDaily("A", D2, V1),
              StockDaily("A", DEmpty, V1), StockDaily("B", D2, V1), BadRecord}
RemoteObjs == {StockDaily("A", D1, V1), BadRecord}
InputObjs == IF backend = "sqlite" THEN LocalObjs ELSE RemoteObjs

\* the records batches are made of
LocalBatchObjs == {StockDaily("A", D1, V1), StockDaily("A", D1, V2),
                   StockDaily("B", D2, V1), BadRecord}
RemoteBatchObjs == {StockDaily("A", D1, V1), BadRecord}
Batches == SeqsUpTo(IF backend = "sqlite" THEN LocalBatchObjs ELSE RemoteBatchObjs, MaxBatch)

\* dataframe rows: `date` as the date column prints, `name` as the index label
\* prints (the second row's label is the empty string)
LocalDfRows == {[date |-> D1 \o Midnight, name |-> D2 \o Midnight, v |-> V1],
                [date |-> D2, name |-> DEmpty, v |-> V2]}
RemoteDfRows == {[date |-> D1 \o Midnight, name |-> D2 \o Midnight, v |-> V1]}
Dataframes ==
    IF backend = "sqlite"
    THEN {[hasDate |-> h, rows |-> rs] : h \in BOOLEAN, rs \in SeqsUpTo(LocalDfRows, MaxBatch)}
    ELSE {[hasDate |-> TRUE, rows |-> rs] : rs \in SeqsUpTo(RemoteDfRows, 1)}
Sources == {"efinance"}
DfCodes == {"B"}

\* the (start, end) pairs of the range queries
Ranges ==
    IF backend = "sqlite"
    THEN {<<D1, D1>>, <<D1, D2>>, <<DEmpty, D2>>, <<D2, D1>>}
    ELSE {<<D1, D2>>}

\* the codes queries and deletes are made for
QueryCodes == IF backend = "sqlite" THEN Codes ELSE {"A"}
CountArgs == QueryCodes \cup {None}
CutoffDates == IF backend = "sqlite" THEN DateStrs ELSE {D2}
CheckDates == DateObjs \cup {NoDate}
\* (check_date, today) of a has_today_data call: no check_date on either
\* day, or a check_date that is not today
TodayArgs == {a \in CheckDates \X DateObjs : a[1] # a[2]}

\* the faults a call can meet in the current state
Attaching == backend # "sqlite" /\ ~conn.exists
Constructing == backend = "none" /\ resolve_backend_type(mgr) = "remote" /\ mgr.boto3
HeadFaults == IF Attaching THEN BOOLEAN ELSE {FALSE}
DlFaults == IF Attaching /\ remoteObj.exists THEN BOOLEAN ELSE {FALSE}
UpFaults == IF backend = "remote_s3" /\ dirty /\ conn.exists THEN BOOLEAN ELSE {FALSE}
UnlinkFaults == IF backend = "remote_s3" /\ conn.exists THEN BOOLEAN ELSE {FALSE}
CtorFaults == IF Constructing THEN BOOLEAN ELSE {FALSE}

\* the state of the first backend object after a call
Assign(res) ==
    /\ res.w.conn.seq <= MaxSeq
    /\ backend' = res.w.backend
    /\ conn' = res.w.conn
    /\ dbFile' = res.w.dbFile
    /\ tmpFile' = res.w.tmpFile
    /\ remoteObj' = res.w.remoteObj
    /\ dirty' = res.w.dirty
    /\ pathSet' = res.w.pathSet
    /\ clock' = res.w.clock
    /\ gAttach' = res.w.gAttach
    /\ gSync' = res.w.gSync
    /\ gBuilt' = res.w.gBuilt
    /\ mgr' = res.w.mgr
    /\ ret' = res.ret

\* the state after a call where no other object is involved
Apply(res) ==
    /\ Assign(res)
    /\ UNCHANGED <<peer, singleton>>

\* ------------------------------------------- calls on a backend object
SaveDaily(data) ==
    \E h \in HeadFaults, d \in DlFaults, s \in BOOLEAN :
        Apply(save_daily(World, data, h, d, s))

SaveDailyBatch(data_list) ==
    \E h \in HeadFaults, d \in DlFaults, s \in 0..Len(data_list) :
        Apply(save_daily_batch(World, data_list, h, d, s))

SaveFromDataframe(df, code, source) ==
    \E h \in HeadFaults, d \in DlFaults, s \in 0..Len(df.rows) :
        Apply(save_from_dataframe(World, df, code, source, h, d, s))

GetDaily(code, start, end) ==
    \E h \in HeadFaults, d \in DlFaults, s \in BOOLEAN :
        Apply(get_daily(World, code, start, end, h, d, s))

GetLatestDate(code) ==
    \E h \in HeadFaults, d \in DlFaults, s \in BOOLEAN :
        Apply(get_latest_date(World, code, h, d, s))

GetStockCodes ==
    \E h \in HeadFaults, d \in DlFaults, s \in BOOLEAN :
        Apply(get_stock_codes(World, h, d, s))

GetRecordCount(code) ==
    \E h \in HeadFaults, d \in DlFaults, s \in BOOLEAN :
        Apply(get_record_count(World, code, h, d, s))

DeleteByCode(code) ==
    \E h \in HeadFaults, d \in DlFaults, s \in BOOLEAN :
        Apply(delete_by_code(World, code, h, d, s))

DeleteBeforeDate(date_str) ==
    \E h \in HeadFaults, d \in DlFaults, s \in BOOLEAN :
        Apply(delete_before_date(World, date_str, h, d, s))

Close ==
    \E u \in UpFaults, x \in UnlinkFaults : Apply(backend_close(World, u, x))

Sync ==
    /\ backend = "remote_s3"
    /\ \E u \in UpFaults : Apply(backend_sync(World, u))

Pull ==
    /\ backend = "remote_s3"
    /\ \E h \in {FALSE, TRUE}, d \in {FALSE, TRUE} : Apply(pull(World, h, d))

\* a second passes
Tick ==
    /\ clock < MaxClock
    /\ clock' = clock + 1
    /\ UNCHANGED <<backend, conn, dbFile, tmpFile, remoteObj, dirty, pathSet, ret,
                   gAttach, gSync, gBuilt, mgr, peer, singleton>>

NoManager == [backend_type |-> "local", cfg |-> {}, env |-> {}, ci |-> FALSE, boto3 |-> FALSE]
NoCall == [op |-> "init", val |-> None, exc |-> None, log |-> <<>>]
\* no second backend object
NoPeer == [w |-> [backend |-> "none"], ret |-> NoCall]

\* a backend object right after its constructor: StockStorage() has created
\* and opened its database, RemoteStockStorage() has touched nothing
Init ==
    /\ backend \in {"sqlite", "remote_s3"}
    /\ conn = IF backend = "sqlite" THEN EmptyDb ELSE NoDb
    /\ dbFile = IF backend = "sqlite" THEN EmptyDb ELSE NoDb
    /\ tmpFile = NoDb
    /\ remoteObj = NoDb
    /\ dirty = FALSE
    /\ pathSet = FALSE
    /\ clock = 0
    /\ ret = NoCall
    /\ gAttach = FALSE
    /\ gSync = FALSE
    /\ gBuilt = 0
    /\ mgr = NoManager
    /\ peer = NoPeer
    /\ singleton = FALSE

Next ==
    \/ Tick
    \/ \E data \in InputObjs : SaveDaily(data)
    \/ \E data_list \in Batches : SaveDailyBatch(data_list)
    \/ \E df \in Dataframes, code \in DfCodes, source \in Sources :
            SaveFromDataframe(df, code, source)
    \/ \E code \in QueryCodes, range \in Ranges : GetDaily(code, range[1], range[2])
    \/ \E code \in QueryCodes : GetLatestDate(code)
    \/ GetStockCodes
    \/ \E code \in CountArgs : GetRecordCount(code)
    \/ \E code \in QueryCodes : DeleteByCode(code)
    \/ \E date_str \in CutoffDates : DeleteBeforeDate(date_str)
    \/ Close
    \/ Sync
    \/ Pull

Spec == Init /\ [][Next]_vars

\* ------------------------------------------ calls on a StockStorageManager
\* the Managers the constructor can make: the backend type asked for, the
\* parameters remote_config and the environment hold, whether the process
\* runs in CI, whether boto3 can be imported
Manager(t, c, e, i, b) == [backend_type |-> t, cfg |-> c, env |-> e, ci |-> i, boto3 |-> b]
CfgHalf == {"bucket_name", "access_key_id"}
EnvHalf == {"secret_access_key", "endpoint_url"}
Managers ==
    {Manager("local", {}, {}, FALSE, TRUE),
     Manager("remote", Params, {}, FALSE, TRUE),
     Manager("remote", Params, {}, FALSE, FALSE),
     Manager("remote", Params \ {"bucket_name"}, {}, FALSE, TRUE),
     Manager("auto", CfgHalf, EnvHalf, TRUE, TRUE),
     Manager("auto", CfgHalf, {}, TRUE, TRUE),
     Manager("auto", Params, {}, FALSE, TRUE)}

ManagerObjs == {StockDaily("A", D1, V1)}
ManagerCodes == {"A"}

ManagerGetBackend ==
    \E c \in CtorFaults :
        LET g == get_backend(World, c)
        IN Apply(Res(g.w, "get_backend", IF g.exc = None THEN g.w.backend ELSE None,
                     g.exc, g.log))

ManagerSaveDaily(data) ==
    \E c \in CtorFaults, h \in HeadFaults, d \in DlFaults, s \in BOOLEAN :
        LET g == get_backend(World, c)
        IN Apply(via_manager(g, "save_daily", save_daily(g.w, data, h, d, s)))

ManagerGetLatestDate(code) ==
    \E c \in CtorFaults, h \in HeadFaults, d \in DlFaults, s \in BOOLEAN :
        LET g == get_backend(World, c)
        IN Apply(via_manager(g, "get_latest_date", get_latest_date(g.w, code, h, d, s)))

HasTodayData(code, check_date, today) ==
    \E c \in CtorFaults, h \in HeadFaults, d \in DlFaults, s \in BOOLEAN :
        Apply(has_today_data(World, code, check_date, today, c, h, d, s))

ManagerSync ==
    \E c \in CtorFaults, u \in UpFaults : Apply(manager_sync(World, c, u))

ManagerClose ==
    \E u \in UpFaults, x \in UnlinkFaults : Apply(manager_close(World, u, x))

BackendName ==
    \E c \in CtorFaults : Apply(backend_name(World, c))

\* a Manager right after its constructor: no backend yet
InitManager ==
    /\ backend = "none"
    /\ mgr \in Managers
    /\ conn = NoDb
    /\ dbFile = NoDb
    /\ tmpFile = NoDb
    /\ remoteObj = NoDb
    /\ dirty = FALSE
    /\ pathSet = FALSE
    /\ clock = 0
    /\ ret = NoCall
    /\ gAttach = FALSE
    /\ gSync = FALSE
    /\ gBuilt = 0
    /\ peer = NoPeer
    /\ singleton = FALSE

NextManager ==
    \/ ManagerGetBackend
    \/ \E data \in ManagerObjs : ManagerSaveDaily(data)
    \/ \E code \in ManagerCodes : ManagerGetLatestDate(code)
    \/ \E code \in ManagerCodes, args \in TodayArgs :
            HasTodayData(code, args[1], args[2])
    \/ ManagerSync
    \/ ManagerClose
    \/ BackendName

SpecManager == InitManager /\ [][NextManager]_vars

\* RemoteStockStorage(...) right after its constructor, nothing at its
\* temporary path, no object under its key
NewRemote ==
    [backend |-> "remote_s3", conn |-> NoDb, dbFile |-> NoDb, tmpFile |-> NoDb,
     remoteObj |-> NoDb, dirty |-> FALSE, pathSet |-> FALSE, clock |-> 0,
     gAttach |-> FALSE, gSync |-> FALSE, gBuilt |-> 0, mgr |-> NoManager]

\* ------------------------------------------- the module-level singleton
\* get_stock_storage_manager(backend_type, ..., force_new): a new Manager m
\* takes the place of _storage_manager if there is none or force_new is set;
\* the Manager it replaces is dropped as it is, with its backend
get_stock_storage_manager(w, present, m, force_new) ==
    IF ~present \/ force_new
    THEN Res([w EXCEPT !.mgr = m, !.backend = "none", !.conn = NoDb, !.dirty = FALSE,
                       !.pathSet = FALSE, !.gAttach = FALSE, !.gSync = FALSE,
                       !.gBuilt = 0],
             "get_stock_storage_manager", "new", None, <<>>)
    ELSE Res(w, "get_stock_storage_manager", "same", None, <<>>)

\* close_stock_storage_manager
close_stock_storage_manager(w, present, upErr, unlinkErr) ==
    IF present
    THEN Renamed(manager_close(w, upErr, unlinkErr), "close_stock_storage_manager")
    ELSE Res(w, "close_stock_storage_manager", None, None, <<>>)

\* the Managers the accessor is asked for
SingletonManagers ==
    {Manager("local", {}, {}, FALSE, TRUE), Manager("remote", Params, {}, FALSE, TRUE)}

GetStockStorageManager(m, force_new) ==
    /\ Assign(get_stock_storage_manager(World, singleton, m, force_new))
    /\ singleton' = TRUE
    /\ UNCHANGED peer

CloseStockStorageManager ==
    /\ \E u \in UpFaults, x \in UnlinkFaults :
            Assign(close_stock_storage_manager(World, singleton, u, x))
    /\ singleton' = FALSE
    /\ UNCHANGED peer

InitSingleton ==
    /\ backend = "none"
    /\ mgr = NoManager
    /\ conn = NoDb
    /\ dbFile = NoDb
    /\ tmpFile = NoDb
    /\ remoteObj = NoDb
    /\ dirty = FALSE
    /\ pathSet = FALSE
    /\ clock = 0
    /\ ret = NoCall
    /\ gAttach = FALSE
    /\ gSync = FALSE
    /\ gBuilt = 0
    /\ peer = NoPeer
    /\ singleton = FALSE

NextSingleton ==
    \/ \E m \in SingletonManagers, force_new \in BOOLEAN : GetStockStorageManager(m, force_new)
    \/ CloseStockStorageManager
    \/ singleton /\ \E data \in ManagerObjs : ManagerSaveDaily(data)
    \/ singleton /\ \E code \in ManagerCodes : ManagerGetLatestDate(code)
    \/ singleton /\ ManagerSync
    \/ singleton /\ ManagerClose

SpecSingleton == InitSingleton /\ [][NextSingleton]_vars

\* -------------------- two processes, each with a remote backend on one key
\* (each process has its own temp_dir; the object under the key is shared)
\* a call made by the first process
First(res) ==
    /\ Assign(res)
    /\ peer' = [peer EXCEPT !.w.remoteObj = res.w.remoteObj]
    /\ UNCHANGED singleton

\* a call made by the second process
Second(res) ==
    /\ res.w.conn.seq <= MaxSeq
    /\ peer' = res
    /\ remoteObj' = res.w.remoteObj
    /\ UNCHANGED <<backend, conn, dbFile, tmpFile, dirty, pathSet, clock, ret,
                   gAttach, gSync, gBuilt, mgr, singleton>>

\* what each process saves: rows of its own, and one key both write
PairObjs(i) ==
    IF i = 1 THEN {StockDaily("A", D1, V1)}
    ELSE {StockDaily("B", D2, V1), StockDaily("A", D1, V2)}

PairSaveDaily(i, data) ==
    IF i = 1 THEN First(save_daily(World, data, FALSE, FALSE, FALSE))
    ELSE Second(save_daily(peer.w, data, FALSE, FALSE, FALSE))

PairGetRecordCount(i) ==
    IF i = 1 THEN First(get_record_count(World, None, FALSE, FALSE, FALSE))
    ELSE Second(get_record_count(peer.w, None, FALSE, FALSE, FALSE))

PairClose(i) ==
    IF i = 1 THEN First(backend_close(World, FALSE, FALSE))
    ELSE Second(backend_close(peer.w, FALSE, FALSE))

InitPair ==
    /\ backend = "remote_s3"
    /\ conn = NoDb
    /\ dbFile = NoDb
    /\ tmpFile = NoDb
    /\ remoteObj = NoDb
    /\ dirty = FALSE
    /\ pathSet = FALSE
    /\ clock = 0
    /\ ret = NoCall
    /\ gAttach = FALSE
    /\ gSync = FALSE
    /\ gBuilt = 0
    /\ mgr = NoManager
    /\ peer = [w |-> NewRemote, ret |-> NoCall]
    /\ singleton = FALSE

NextPair ==
    \E i \in {1, 2} :
        \/ \E data \in PairObjs(i) : PairSaveDaily(i, data)
        \/ PairGetRecordCount(i)
        \/ PairClose(i)

SpecPair == InitPair /\ [][NextPair]_vars

\* --------------------- the files two remote backend instances work with
\* the temp_dir argument of the constructor: none, empty, or a directory
TempDirArgs == {None, "", "T1", "T2"}

\* Path(temp_dir) if temp_dir else Path(tempfile.gettempdir()) / "stock_storage"
temp_dir(arg) == IF Truthy(arg) THEN <<arg>> ELSE <<"tmp", "stock_storage">>

\* _get_local_db_path
get_local_db_path(dir) == dir \o <<"stock.db">>

\* an instance: constructed or not, its temp_dir argument and directory,
\* whether its connection is open, the uses it has made of local files
NoInstance == [alive |-> FALSE, arg |-> None, dir |-> <<>>, attached |-> FALSE, used |-> {}]

\* instance i makes the file operations `kinds` on its working-copy path
Using(i, kinds, attached) ==
    /\ peer' = [peer EXCEPT
                    ![i].used = @ \cup {[kind |-> k, file |-> get_local_db_path(peer[i].dir)] :
                                            k \in kinds},
                    ![i].attached = attached]
    /\ UNCHANGED <<backend, conn, dbFile, tmpFile, remoteObj, dirty, pathSet, clock, ret,
                   gAttach, gSync, gBuilt, mgr, singleton>>

\* RemoteStockStorage(..., temp_dir=arg)
PathsConstruct(i, arg) ==
    /\ ~peer[i].alive
    /\ peer' = [peer EXCEPT ![i] = [alive |-> TRUE, arg |-> arg, dir |-> temp_dir(arg),
                                    attached |-> FALSE, used |-> {}]]
    /\ UNCHANGED <<backend, conn, dbFile, tmpFile, remoteObj, dirty, pathSet, clock, ret,
                   gAttach, gSync, gBuilt, mgr, singleton>>

\* _get_connection: download_file into the path if the object exists,
\* sqlite3.connect on the path
PathsGetConnection(i, exists) ==
    /\ peer[i].alive /\ ~peer[i].attached
    /\ Using(i, (IF exists THEN {"download"} ELSE {}) \cup {"open"}, TRUE)

\* sync: upload_file from the path
PathsSync(i) ==
    /\ peer[i].alive /\ peer[i].attached
    /\ Using(i, {"upload"}, TRUE)

\* close: unlink of the path
PathsClose(i) ==
    /\ peer[i].alive /\ peer[i].attached
    /\ Using(i, {"delete"}, FALSE)

InitPaths ==
    /\ backend = "none"
    /\ mgr = NoManager
    /\ conn = NoDb
    /\ dbFile = NoDb
    /\ tmpFile = NoDb
    /\ remoteObj = NoDb
    /\ dirty = FALSE
    /\ pathSet = FALSE
    /\ clock = 0
    /\ ret = NoCall
    /\ gAttach = FALSE
    /\ gSync = FALSE
    /\ gBuilt = 0
    /\ peer = <<NoInstance, NoInstance>>
    /\ singleton = FALSE

NextPaths ==
    \E i \in {1, 2} :
        \/ \E arg \in TempDirArgs : PathsConstruct(i, arg)
        \/ \E exists \in BOOLEAN : PathsGetConnection(i, exists)
        \/ PathsSync(i)
        \/ PathsClose(i)

SpecPaths == InitPaths /\ [][NextPaths]_vars

\* ------------------------- the same calls on a local and a remote backend
\* one call made on the first object and on the second
Both(first, second) ==
    /\ Assign(first)
    /\ peer' = second
    /\ UNCHANGED singleton

BothSaveDaily(data) ==
    Both(save_daily(World, data, FALSE, FALSE, FALSE),
         save_daily(peer.w, data, FALSE, FALSE, FALSE))

BothSaveDailyBatch(data_list) ==
    Both(save_daily_batch(World, data_list, FALSE, FALSE, 0),
         save_daily_batch(peer.w, data_list, FALSE, FALSE, 0))

BothSaveFromDataframe(df, code, source) ==
    Both(save_from_dataframe(World, df, code, source, FALSE, FALSE, 0),
         save_from_dataframe(peer.w, df, code, source, FALSE, FALSE, 0))

BothGetDaily(code, start, end) ==
    Both(get_daily(World, code, start, end, FALSE, FALSE, FALSE),
         get_daily(peer.w, code, start, end, FALSE, FALSE, FALSE))

BothGetLatestDate(code) ==
    Both(get_latest_date(World, code, FALSE, FALSE, FALSE),
         get_latest_date(peer.w, code, FALSE, FALSE, FALSE))

BothGetStockCodes ==
    Both(get_stock_codes(World, FALSE, FALSE, FALSE),
         get_stock_codes(peer.w, FALSE, FALSE, FALSE))

BothGetRecordCount(code) ==
    Both(get_record_count(World, code, FALSE, FALSE, FALSE),
         get_record_count(peer.w, code, FALSE, FALSE, FALSE))

BothDeleteByCode(code) ==
    Both(delete_by_code(World, code, FALSE, FALSE, FALSE),
         delete_by_code(peer.w, code, FALSE, FALSE, FALSE))

BothDeleteBeforeDate(date_str) ==
    Both(delete_before_date(World, date_str, FALSE, FALSE, FALSE),
         delete_before_date(peer.w, date_str, FALSE, FALSE, FALSE))

\* a second passes for both
BothTick ==
    /\ clock < MaxClock
    /\ clock' = clock + 1
    /\ peer' = [peer EXCEPT !.w.clock = clock + 1]
    /\ UNCHANGED <<backend, conn, dbFile, tmpFile, remoteObj, dirty, pathSet, ret,
                   gAttach, gSync, gBuilt, mgr, singleton>>

\* StockStorage on an empty database and RemoteStockStorage with no remote object
InitBoth ==
    /\ backend = "sqlite"
    /\ conn = EmptyDb
    /\ dbFile = EmptyDb
    /\ tmpFile = NoDb
    /\ remoteObj = NoDb
    /\ dirty = FALSE
    /\ pathSet = FALSE
    /\ clock = 0
    /\ ret = NoCall
    /\ gAttach = FALSE
    /\ gSync = FALSE
    /\ gBuilt = 0
    /\ mgr = NoManager
    /\ peer = [w |-> NewRemote, ret |-> NoCall]
    /\ singleton = FALSE

NextBoth ==
    \/ BothTick
    \/ \E data \in InputObjs : BothSaveDaily(data)
    \/ \E data_list \in Batches : BothSaveDailyBatch(data_list)
    \/ \E df \in Dataframes, code \in DfCodes, source \in Sources :
            BothSaveFromDataframe(df, code, source)
    \/ \E code \in QueryCodes, range \in Ranges : BothGetDaily(code, range[1], range[2])
    \/ \E code \in QueryCodes : BothGetLatestDate(code)
    \/ BothGetStockCodes
    \/ \E code \in CountArgs : BothGetRecordCount(code)
    \/ \E code \in QueryCodes : BothDeleteByCode(code)
    \/ \E date_str \in CutoffDates : BothDeleteBeforeDate(date_str)

SpecBoth == InitBoth /\ [][NextBoth]_vars

\* ------------------------------------------- conversions of storage/base.py
\* the rows handed to a conversion: the date column as a date string or as a
\* pandas Timestamp prints, the index label, the value columns
ConvertDates == {D1, D2, D1 \o Midnight}
ConvertRows ==
    {[date |-> d, name |-> n, v |-> v] : d \in ConvertDates, n \in {D1, DEmpty}, v \in Profiles}
ConvertFrames == {[hasDate |-> h, rows |-> <<r>>] : h \in BOOLEAN, r \in ConvertRows}
ConvertCodes == {"A", "B", ""}
ConvertSources == {"efinance", ""}

\* StockDaily.from_dataframe_row(row, code, data_source).to_dict()
FromDataframeRow(df, code, source) ==
    /\ ret' = [op |-> "from_dataframe_row",
               val |-> [df |-> df, code |-> code, source |-> source,
                        out |-> ToDict(from_dataframe_row(df, df.rows[1], code, source))],
               exc |-> None, log |-> <<>>]
    /\ UNCHANGED <<backend, conn, dbFile, tmpFile, remoteObj, dirty, pathSet, clock,
                   gAttach, gSync, gBuilt, mgr, peer, singleton>>

InitConvert ==
    /\ backend = "none"
    /\ mgr = NoManager
    /\ conn = NoDb
    /\ dbFile = NoDb
    /\ tmpFile = NoDb
    /\ remoteObj = NoDb
    /\ dirty = FALSE
    /\ pathSet = FALSE
    /\ clock = 0
    /\ ret = NoCall
    /\ gAttach = FALSE
    /\ gSync = FALSE
    /\ gBuilt = 0
    /\ peer = NoPeer
    /\ singleton = FALSE

NextConvert ==
    \E df \in ConvertFrames, code \in ConvertCodes, source \in ConvertSources :
        FromDataframeRow(df, code, source)

SpecConvert == InitConvert /\ [][NextConvert]_vars

\* ------------------------------------------------------------ properties
\* the databases of the model: the open connection, the local database file,
\* the remote backend's working copy and the remote object
RowsUnique(db) ==
    \A r1, r2 \in db.rows : (r1.code = r2.code /\ r1.date = r2.date) => r1 = r2

\* the step is the call that ends as res
Took(res) ==
    /\ res.ret.op = ret'.op
    /\ res.ret.exc = ret'.exc
    /\ res.ret.val = ret'.val
    /\ res.ret.log = ret'.log
    /\ res.w = World'

\* C1: whatever saves and deletes were made, no database of a backend (the
\* connection, the local file, the working copy, the uploaded object) holds
\* two rows with the same (code, date).
C1_UniqueCodeDate ==
    /\ RowsUnique(conn)
    /\ RowsUnique(dbFile)
    /\ RowsUnique(tmpFile)
    /\ RowsUnique(remoteObj)

\* a write has met an existing pair: some row was updated after it was created
C1_Witness ==
    /\ ret.op \in {"save_daily", "save_daily_batch", "save_from_dataframe"}
    /\ \E r \in conn.rows : r.updated_at > r.created_at

\* the row of db stored under the key of record p
RowOf(db, p) == CHOOSE r \in db.rows : r.code = p.code /\ r.date = p.date

\* C2: a save_daily that succeeds on an open connection holding the record's
\* (code, date) leaves that row's id and created_at as they were and sets
\* each of the twelve mutable columns to the record's value.
C2_UpsertKeepsIdentity ==
    [][\A data \in InputObjs :
          (/\ ret'.op = "save_daily"
           /\ ret'.exc = None
           /\ ret'.val = TRUE
           /\ conn.exists
           /\ Conflicts(conn.rows, ToDict(data)) # {}
           /\ SaveDaily(data))
          => /\ Conflicts(conn'.rows, ToDict(data)) # {}
             /\ RowOf(conn', data).id = RowOf(conn, data).id
             /\ RowOf(conn', data).created_at = RowOf(conn, data).created_at
             /\ \A k \in MutableCols : RowOf(conn', data)[k] = data[k]
             /\ Cardinality(conn'.rows) = Cardinality(conn.rows)]_vars

\* the second save of a pair, a second later and with other values, is stored
C2_Witness ==
    /\ ret.op = "save_daily"
    /\ ret.exc = None
    /\ ret.val = TRUE
    /\ \E r \in conn.rows :
          /\ r.id = 1
          /\ conn.seq = 2
          /\ r.updated_at > r.created_at
          /\ \A k \in MutableCols : r[k] = V2[k]

\* C3: when close() ends on a remote backend whose connection made a
\* successful write, the remote object exists and holds every row of the
\* working copy, so that a new instance downloads them.
C3_CloseMakesDurable ==
    [][(/\ backend = "remote_s3"
        /\ conn.exists
        /\ gAttach
        /\ Close)
       => /\ remoteObj'.exists
          /\ tmpFile.rows \subseteq remoteObj'.rows]_vars

\* C4: a save_daily_batch that fails (a non-empty batch answered with 0)
\* leaves the rows its connection sees as they were before the call.
C4_BatchAtomic ==
    [][\A data_list \in Batches :
          (/\ ret'.op = "save_daily_batch"
           /\ ret'.exc = None
           /\ ret'.val = 0
           /\ conn.exists
           /\ data_list # <<>>
           /\ SaveDailyBatch(data_list))
          => conn'.rows = conn.rows]_vars

\* C5: get_latest_date(code), met by no fault, answers None exactly when the
\* connection holds no row of the code, and the greatest date of the code's
\* rows otherwise.
C5_LatestIsMax ==
    [][\A code \in QueryCodes :
          (/\ ret'.op = "get_latest_date"
           /\ conn.exists
           /\ Took(get_latest_date(World, code, FALSE, FALSE, FALSE)))
          => IF \E r \in conn.rows : r.code = code
             THEN ret'.val = Some(MaxDateOf(conn.rows, code))
             ELSE ret'.val = NoneStr]_vars

\* an entry of the last call's log of constructor and object-store calls
Logged(x) == \E i \in 1..Len(ret.log) : ret.log[i] = x
LoggedNext(x) == \E i \in 1..Len(ret'.log) : ret'.log[i] = x

\* C7: sync(), called by the user or by close(), uploads the working copy if
\* and only if a save or delete has succeeded on the connection since it was
\* attached or since its last successful upload.
C7_UploadIffWritten ==
    [][(/\ backend = "remote_s3"
        /\ conn.exists
        /\ (Sync \/ Close))
       => ((LoggedNext("upload:ok") \/ LoggedNext("upload:err")) <=> gSync)]_vars

DataOps == {"save_daily", "save_daily_batch", "save_from_dataframe", "get_daily",
            "get_latest_date", "get_stock_codes", "get_record_count",
            "delete_by_code", "delete_before_date"}

\* C8: no data operation of a backend ends with an exception.
C8_DataOpsAbsorbFaults == ret.op \in DataOps => ret.exc = None

\* C9: a call during which the existence check or the download met an error
\* ends without an exception and with the Manager on the local backend.
C9_AttachFaultFallsBack ==
    (Logged("head:err") \/ Logged("download:err"))
        => (backend = "sqlite" /\ ret.exc = None)

\* C6: has_today_data(code, check_date), met by no database fault, answers
\* true exactly when get_latest_date(code) is the text of check_date, or of
\* today when check_date is omitted; it answers false when the code has no
\* row and when each of its rows is older than that date.
C6_HasTodayIffLatest ==
    [][\A code \in ManagerCodes, args \in TodayArgs :
          LET check_date == args[1]
              today == args[2]
              latest == latest_date_value(conn'.rows, code)
              wanted == Strftime(IF check_date = NoDate THEN today ELSE check_date)
              mine == {r \in conn'.rows : r.code = code}
          IN (/\ ret'.op = "has_today_data"
              /\ ret'.exc = None
              /\ ~(/\ ret'.val = (latest.some /\ latest.v = wanted)
                   /\ mine = {} => ret'.val = FALSE
                   /\ (\A r \in mine : StrLess(r.date, wanted)) => ret'.val = FALSE))
             => ~\E c \in CtorFaults, h \in HeadFaults, d \in DlFaults :
                   Took(has_today_data(World, code, check_date, today, c, h, d, FALSE))]_vars

\* has_today_data has answered true
C6_Witness ==
    /\ ret.op = "has_today_data"
    /\ ret.exc = None
    /\ ret.val = TRUE
    /\ \E r \in conn.rows : r.code = "A" /\ r.date = D1

C11_IncompleteRemoteFallsBack ==
    (mgr.backend_type = "remote" /\ \E k \in Params : k \notin mgr.cfg /\ k \notin mgr.env)
        => (backend # "remote_s3" /\ ret.exc = None)

\* the last call constructed a backend: it tried the remote constructor, or
\* went straight to the local one
TriedRemote == Logged("ctor:ok") \/ Logged("ctor:Exception") \/ Logged("ctor:ImportError")
TriedAny == TriedRemote \/ Logged("ctor:local")

C13_OneBackendPerManager ==
    /\ ret.op = "init" => (gBuilt = 0 /\ backend = "none")
    /\ gBuilt <= 1

\* the last record of a batch with the key of record p
LastOf(data_list, p) ==
    LET same == {i \in 1..Len(data_list) :
                    data_list[i].code = p.code /\ data_list[i].date = p.date}
    IN data_list[CHOOSE i \in same : \A j \in same : j <= i]

\* C14: after a save_daily_batch that succeeds, each (code, date) of the
\* batch has exactly one row, and the row's mutable columns are those of
\* the last record of the batch with that pair.
C14_LastInBatchWins ==
    [][\A data_list \in Batches :
          (/\ ret'.op = "save_daily_batch"
           /\ ret'.exc = None
           /\ data_list # <<>>
           /\ ret'.val = Len(data_list)
           /\ SaveDailyBatch(data_list))
          => \A i \in 1..Len(data_list) :
                /\ Cardinality(Conflicts(conn'.rows, data_list[i])) = 1
                /\ \A k \in MutableCols :
                      RowOf(conn', data_list[i])[k] = LastOf(data_list, data_list[i])[k]]_vars

\* one batch has stored a pair twice: a single new row, written by two
\* statements, with the values of the second record
C14_Witness ==
    /\ ret.op = "save_daily_batch"
    /\ ret.exc = None
    /\ ret.val = 2
    /\ conn.seq = 2
    /\ \E r \in conn.rows :
          /\ conn.rows = {r}
          /\ r.id = 1
          /\ r.created_at = r.updated_at
          /\ \A k \in MutableCols : r[k] = V2[k]

\* C15: a save_daily that succeeds on an open connection holding the
\* record's (code, date) leaves the row with an updated_at strictly greater
\* than the one it had, whether or not a second has passed since the
\* previous save.
C15_UpdatedAtAdvances ==
    [][\A data \in InputObjs :
          (/\ ret'.op = "save_daily"
           /\ ret'.exc = None
           /\ ret'.val = TRUE
           /\ conn.exists
           /\ Conflicts(conn.rows, ToDict(data)) # {}
           /\ SaveDaily(data))
          => RowOf(conn', data).updated_at > RowOf(conn, data).updated_at]_vars

\* the stored rows of a code dated from start to end, both included
InRange(db, code, start, end) ==
    {r \in db.rows : r.code = code /\ StrLeq(start, r.date) /\ StrLeq(r.date, end)}

\* the row of db with the id of a returned record
RowWithId(db, id) == CHOOSE r \in db.rows : r.id = id

\* C16: a get_daily that meets no fault returns one record per stored row of
\* the code dated from start to end, both bounds included, and no other;
\* the records are those rows as from_dict reads them, in strictly ascending
\* order of the stored date; with no such row the list is empty and nothing
\* is raised.
C16_RangeQuery ==
    [][\A code \in QueryCodes, range \in Ranges :
          (/\ ret'.op = "get_daily"
           /\ Took(get_daily(World, code, range[1], range[2], FALSE, FALSE, FALSE)))
          => LET hit == InRange(conn', code, range[1], range[2])
                 val == ret'.val
             IN /\ ret'.exc = None
                /\ Len(val) = Cardinality(hit)
                /\ {val[i].id : i \in 1..Len(val)} = {r.id : r \in hit}
                /\ \A i \in 1..Len(val) : val[i] = from_dict(RowWithId(conn', val[i].id))
                /\ \A i, j \in 1..Len(val) :
                      i < j => StrLess(RowWithId(conn', val[i].id).date,
                                       RowWithId(conn', val[j].id).date)
                /\ hit = {} => val = <<>>]_vars

\* a range query has returned two rows, one on each bound, the earlier date
\* first although it was inserted last
C16_Witness ==
    /\ ret.op = "get_daily"
    /\ ret.exc = None
    /\ Len(ret.val) = 2
    /\ ret.val[1].date = ConvertDate(D1)
    /\ ret.val[2].date = ConvertDate(D2)
    /\ ret.val[1].id > ret.val[2].id

\* C17: on an open connection and with no fault, delete_by_code(c) removes
\* the rows of code c and no other, delete_before_date(d) removes the rows
\* dated before d and no other (a row dated d stays); each returns the
\* number of rows it removed and leaves every other row as it was, and
\* get_record_count(c) is 0 right after delete_by_code(c).
C17_DeletesExact ==
    [][/\ \A code \in QueryCodes :
             (/\ ret'.op = "delete_by_code"
              /\ conn.exists
              /\ Took(delete_by_code(World, code, FALSE, FALSE, FALSE)))
             => /\ conn'.rows = {r \in conn.rows : r.code # code}
                /\ ret'.val = Cardinality({r \in conn.rows : r.code = code})
                /\ get_record_count(World', code, FALSE, FALSE, FALSE).ret.val = 0
       /\ \A d \in CutoffDates :
             (/\ ret'.op = "delete_before_date"
              /\ conn.exists
              /\ Took(delete_before_date(World, d, FALSE, FALSE, FALSE)))
             => /\ conn'.rows = {r \in conn.rows : ~StrLess(r.date, d)}
                /\ ret'.val = Cardinality({r \in conn.rows : StrLess(r.date, d)})
                /\ \A r \in conn.rows : r.date = d => r \in conn'.rows]_vars

\* delete_before_date has removed one of two rows and the row that stays is
\* dated D1: the cutoff was D1 itself (the row removed had the empty date)
C17_Witness ==
    /\ ret.op = "delete_before_date"
    /\ ret.exc = None
    /\ ret.val = 1
    /\ conn.seq = 2
    /\ \E r \in conn.rows : conn.rows = {r} /\ r.date = D1

\* C18: after a pull() on the remote backend that meets no fault, whether
\* the remote object exists or not, the next read sees the remote snapshot:
\* a count of all rows made right after the pull is the number of rows of
\* the remote object (none if there is no object).
C18_PullDiscardsWorkingCopy ==
    [][(/\ ret'.op = "pull"
        /\ backend = "remote_s3"
        /\ Took(pull(World, FALSE, FALSE)))
       => get_record_count(World', None, FALSE, FALSE, FALSE).ret.val
             = Cardinality(remoteObj'.rows)]_vars

\* C19: after a close() of the remote backend that meets no fault, whatever
\* reads, writes, sync() and pull() came before it, the working-copy file
\* does not exist.
C19_CloseRemovesWorkingCopy ==
    [][(/\ ret'.op = "close"
        /\ backend = "remote_s3"
        /\ Took(backend_close(World, FALSE, FALSE)))
       => ~tmpFile'.exists]_vars

\* C20: a dataframe row whose date is empty is rejected when it is
\* converted: no save_from_dataframe stores a row with an empty date or an
\* empty code.
C20_KeylessNeverStored ==
    [][ret'.op = "save_from_dataframe"
       => \A r \in conn'.rows \ conn.rows : r.date # DEmpty /\ Truthy(r.code)]_vars

\* C21: for every row, code and source label, the dictionary of the record
\* made from the row holds the code, the source label and each value of the
\* row (the date and the eleven value columns) as the row has it, and none
\* of id, created_at, updated_at.
C21_RowRoundTrip ==
    ret.op = "from_dataframe_row"
        => LET row == ret.val.df.rows[1]
               out == ret.val.out
           IN /\ out.code = ret.val.code
              /\ out.data_source = ret.val.source
              /\ (ret.val.df.hasDate => out.date = row.date)
              /\ \A k \in MutableCols \ {"data_source"} : out[k] = row.v[k]
              /\ (DOMAIN out) \cap GeneratedCols = {}

C23_CloseOrder ==
    [][\A u \in BOOLEAN, x \in BOOLEAN :
          (/\ ret'.op = "close"
           /\ backend = "remote_s3"
           /\ conn.exists
           /\ dirty
           /\ Took(backend_close(World, u, x)))
          => /\ ret'.log = IF u THEN <<"upload:err">> ELSE <<"upload:ok">>
             /\ remoteObj' = IF u THEN remoteObj ELSE conn
             /\ ~conn'.exists
             /\ tmpFile' = IF x THEN conn ELSE NoDb]_vars

\* a close has uploaded a working copy that two statements had written,
\* released the connection and deleted the file
C23_Witness ==
    /\ backend = "remote_s3"
    /\ ret.op = "close"
    /\ ret.log = <<"upload:ok">>
    /\ ~conn.exists
    /\ ~tmpFile.exists
    /\ remoteObj.exists
    /\ remoteObj.seq = 2

\* the operations that only read
ReadOps == {"get_daily", "get_latest_date", "get_stock_codes", "get_record_count"}

\* C24: when a read attaches a remote backend while no remote object exists,
\* the read does not fail and the working copy it opens is an empty
\* database, whatever was done with this backend before.
C24_AbsentObjectFreshCopy ==
    [][(/\ ret'.op \in ReadOps
        /\ backend = "remote_s3"
        /\ ~conn.exists
        /\ ~remoteObj.exists
        /\ ret'.log = <<"head:404">>)
       => /\ ret'.exc = None
          /\ conn' = EmptyDb
          /\ tmpFile' = EmptyDb]_vars

\* what _check_object_exists leaves in the log
HeadCalls == {"head:err", "head:404", "head:ok"}

C27_PrivateWorkingCopy ==
    (/\ peer[1].alive /\ ~Truthy(peer[1].arg)
     /\ peer[2].alive /\ ~Truthy(peer[2].arg))
        => \A u \in peer[1].used, v \in peer[2].used : u.file # v.file

\* C28: the working copy a remote backend attaches to, and later uploads
\* from, starts from the content of the remote object: when a read attaches
\* and the existence check finds the object, the working copy it opens is
\* that object's content, whether or not the download that follows succeeds.
C28_CopyStartsFromObject ==
    [][(/\ ret'.op \in ReadOps
        /\ backend = "remote_s3"
        /\ ~conn.exists
        /\ ret'.log # <<>>
        /\ ret'.log[1] = "head:ok")
       => /\ conn' = remoteObj
          /\ tmpFile' = remoteObj]_vars

C30_ReplacedManagerClosed ==
    [][/\ (ret'.op = "get_stock_storage_manager" /\ singleton /\ ret'.val = "new")
            => backend = "none"
       /\ ret'.op = "close_stock_storage_manager"
            => (backend' = "none" /\ ~conn'.exists /\ ~singleton')]_vars

====
